---- MODULE Spec2Model ----
(***************************************************************************)
(* Model of streamlit_app.py: the "Material Properties" page of the        *)
(* composite analysis tool.  The session state (materials_db with its two  *)
(* registries, composite_definitions) is the state; every button click is  *)
(* one rerun of the script and one action of the model.                    *)
(*                                                                         *)
(* Numbers.  The program computes in IEEE doubles; the model computes in   *)
(* exact rational arithmetic.  A number is a pair <<n, d>> with d > 0 and  *)
(* gcd(n, d) = 1.  Dictionaries are functions from keys to values; in      *)
(* exact arithmetic the sums do not depend on the insertion order, so the  *)
(* order of a dict is not part of the state.                               *)
(***************************************************************************)
EXTENDS Integers, Sequences, FiniteSets, TLC

\* fibers, matrices and composite_definitions are the dicts of the session
\* state; run is what the last rerun of the page was asked and what it
\* computed and displayed; reruns counts the reruns of the session.  The page
\* stays in the "Material Properties" mode, the only one that touches the
\* session state.
VARIABLES fibers, matrices, composite_definitions, run, reruns

vars == <<fibers, matrices, composite_definitions, run, reruns>>

(***************************************************************************)
(* Exact arithmetic standing for the float operations of the script.      *)
(***************************************************************************)
RECURSIVE GCD(_, _)
GCD(a, b) == IF b = 0 THEN a ELSE GCD(b, a % b)

AbsInt(n) == IF n < 0 THEN -n ELSE n

Norm(n, d) ==
    LET g == GCD(AbsInt(n), d)
    IN  <<n \div g, d \div g>>

Zero == <<0, 1>>

One == <<1, 1>>

Add(a, b) ==
    LET g == GCD(a[2], b[2])
    IN  Norm(a[1] * (b[2] \div g) + b[1] * (a[2] \div g), (a[2] \div g) * b[2])

Neg(a) == <<-a[1], a[2]>>

Sub(a, b) == Add(a, Neg(b))

Abs(a) == <<AbsInt(a[1]), a[2]>>

Mul(a, b) ==
    LET g1 == GCD(AbsInt(a[1]), b[2])
        g2 == GCD(AbsInt(b[1]), a[2])
    IN  <<(a[1] \div g1) * (b[1] \div g2), (a[2] \div g2) * (b[2] \div g1)>>

\* 1 / a for a # 0
Inv(a) == IF a[1] < 0 THEN <<-a[2], -a[1]>> ELSE <<a[2], a[1]>>

Div(a, b) == Mul(a, Inv(b))

Leq(a, b) == Sub(a, b)[1] <= 0

Less(a, b) == Sub(a, b)[1] < 0

IsZero(a) == a[1] = 0

RECURSIVE Pow10(_)
Pow10(p) == IF p = 0 THEN 1 ELSE 10 * Pow10(p - 1)

\* f"{q:.<p>f}" for q >= 0: the number of units of 10^-p nearest to q
Fmt(q, p) == (2 * q[1] * Pow10(p) + q[2]) \div (2 * q[2])

(***************************************************************************)
(* Inputs of the widgets.                                                  *)
(***************************************************************************)
\* number_input defaults of the fiber form: E=230.0, nu=0.2, G=90.0, rho=1.8
CarbonProps == [E |-> <<230, 1>>, nu |-> <<1, 5>>, G |-> <<90, 1>>, density |-> <<9, 5>>]

\* number_input defaults of the matrix form: E=3.5, nu=0.35, G=1.3, rho=1.2
EpoxyProps == [E |-> <<7, 2>>, nu |-> <<7, 20>>, G |-> <<13, 10>>, density |-> <<6, 5>>]

PropsPool == {CarbonProps, EpoxyProps}

\* contents of the two name fields; "Carbon" can name a fiber and a matrix
FiberNames == {"", "Carbon", "Glass"}

MatrixNames == {"", "Epoxy", "Carbon"}

CompositeNames == {"", "Carbon/Epoxy", "Hybrid"}

\* values of the volume-fraction widgets, all within [min_value, max_value]
VfPool == {Zero, <<2, 5>>, <<3, 5>>, One}

\* reruns explored in one session
MaxReruns == 4

NoDict == [n \in {} |-> Zero]

\* what a rerun was asked and what it displayed; None and the empty results
\* of a rerun are the empty tuple
None == <<>>

Shown(button, name, props, message, vf_error, selections, sums) ==
    [button |-> button, name |-> name, props |-> props, message |-> message,
     vf_error |-> vf_error, selections |-> selections, sums |-> sums]

NoRun == Shown("none", "", None, "none", None, None, None)

(***************************************************************************)
(* Session state after the first run of the script.                       *)
(***************************************************************************)
Init ==
    /\ fibers = NoDict
    /\ matrices = NoDict
    /\ composite_definitions = NoDict
    /\ run = NoRun
    /\ reruns = 0

\* a dict.setdefault in place of the assignment: an existing entry is kept
DictSetDefault(d, k, v) == [x \in DOMAIN d \cup {k} |-> IF x \in DOMAIN d THEN d[x] ELSE v]

\* d[k] = v of a Python dict: insert or overwrite, other keys untouched
DictSet(d, k, v) == [x \in DOMAIN d \cup {k} |-> IF x = k THEN v ELSE d[x]]

\* "Add Fiber" without the check of the name
AddFiberUnchecked(fiber_name, props) ==
    /\ reruns < MaxReruns
    /\ reruns' = reruns + 1
    /\ fibers' = [x \in DOMAIN fibers \cup {fiber_name} |->
                     IF x = fiber_name THEN props ELSE fibers[x]]
    /\ run' = Shown("add_fiber", fiber_name, <<props>>, "success", None, None, None)
    /\ UNCHANGED <<matrices, composite_definitions>>

(***************************************************************************)
(* "Add Fiber" clicked with the given contents of the fiber form.          *)
(***************************************************************************)
AddFiber(fiber_name, props) ==
    /\ reruns < MaxReruns
    /\ reruns' = reruns + 1
    /\ IF fiber_name # ""
       THEN /\ fibers' = DictSet(fibers, fiber_name, props)
            /\ run' = Shown("add_fiber", fiber_name, <<props>>, "success", None, None, None)
       ELSE /\ fibers' = fibers
            /\ run' = Shown("add_fiber", fiber_name, <<props>>, "error", None, None, None)
    /\ UNCHANGED <<matrices, composite_definitions>>

(***************************************************************************)
(* "Add Matrix" clicked with the given contents of the matrix form.        *)
(***************************************************************************)
AddMatrix(matrix_name, props) ==
    /\ reruns < MaxReruns
    /\ reruns' = reruns + 1
    /\ IF matrix_name # ""
       THEN /\ matrices' = DictSet(matrices, matrix_name, props)
            /\ run' = Shown("add_matrix", matrix_name, <<props>>, "success", None, None, None)
       ELSE /\ matrices' = matrices
            /\ run' = Shown("add_matrix", matrix_name, <<props>>, "error", None, None, None)
    /\ UNCHANGED <<fibers, composite_definitions>>

(***************************************************************************)
(* The "Composite Definition" tab.                                         *)
(***************************************************************************)
\* key=f"vf_{fiber_name}" and key=f"vf_{matrix_name}": the widget key is built
\* from the name alone
VfKey(name) == "vf_" \o name

FiberKeys == {VfKey(n) : n \in DOMAIN fibers}

MatrixKeys == {VfKey(n) : n \in DOMAIN matrices}

\* Streamlit refuses a second widget with a key already used in the same run
DuplicateWidgetKey == FiberKeys \cap MatrixKeys # {}

\* fiber_selections / matrix_selections: name -> value of the widget vf_<name>
Selections(db, widgets) == [n \in DOMAIN db |-> widgets[VfKey(n)]]

\* total_fiber_vf += vf, total_matrix_vf += vf
RECURSIVE TotalVf(_, _)
TotalVf(selections, names) ==
    IF names = {} THEN Zero
    ELSE LET n == CHOOSE x \in names : TRUE
         IN  Add(selections[n], TotalVf(selections, names \ {n}))

\* the tolerance taken as 1.0 instead of atol
IsCloseLoose(a, b, atol) == Leq(Abs(Sub(a, b)), One)

\* numpy.isclose(a, b, rtol=1e-05, atol): |a - b| <= atol + rtol * |b|
IsClose(a, b, atol) == Leq(Abs(Sub(a, b)), Add(atol, Mul(<<1, 100000>>, Abs(b))))

\* vf_error: None, or the error message (its text is not modelled)
VfError(total_fiber_vf, total_matrix_vf) ==
    IF ~IsClose(Add(total_fiber_vf, total_matrix_vf), One, <<1, 100>>)
    THEN <<"Total volume fractions must sum to 1.0">>
    ELSE None

\* the condition without the name
AcceptedAnyName(vf_error, composite_name) == vf_error = None

\* the condition without the sum check
AcceptedAnySum(vf_error, composite_name) == composite_name # ""

\* the condition of line 185 once the button is clicked
Accepted(vf_error, composite_name) == vf_error = None /\ composite_name # ""

NoSums == [E1 |-> Zero, E2_denominator |-> Zero, G12_denominator |-> Zero,
           nu12 |-> Zero, density |-> Zero]

\* the loop with G12_denominator fed from E instead of G
RECURSIVE ContributionsShearFromE(_, _, _, _)
ContributionsShearFromE(db, selections, names, sums) ==
    IF names = {} THEN sums
    ELSE LET n == CHOOSE x \in names : TRUE
             c == db[n]
             vf == selections[n]
         IN  ContributionsShearFromE(db, selections, names \ {n},
                 [E1 |-> Add(sums.E1, Mul(c.E, vf)),
                  E2_denominator |-> Add(sums.E2_denominator, Div(vf, c.E)),
                  G12_denominator |-> Add(sums.G12_denominator, Div(vf, c.E)),
                  nu12 |-> Add(sums.nu12, Mul(c.nu, vf)),
                  density |-> Add(sums.density, Mul(c.density, vf))])

\* one loop of contributions: for name, vf in selections.items()
RECURSIVE Contributions(_, _, _, _)
Contributions(db, selections, names, sums) ==
    IF names = {} THEN sums
    ELSE LET n == CHOOSE x \in names : TRUE
             c == db[n]
             vf == selections[n]
         IN  Contributions(db, selections, names \ {n},
                 [E1 |-> Add(sums.E1, Mul(c.E, vf)),
                  E2_denominator |-> Add(sums.E2_denominator, Div(vf, c.E)),
                  G12_denominator |-> Add(sums.G12_denominator, Div(vf, c.G)),
                  nu12 |-> Add(sums.nu12, Mul(c.nu, vf)),
                  density |-> Add(sums.density, Mul(c.density, vf))])

\* the accumulators after the fiber loop alone
SumsFibersOnly(fiber_selections, matrix_selections) ==
    Contributions(fibers, fiber_selections, DOMAIN fibers, NoSums)

\* the five accumulators after the fiber loop and the matrix loop
Sums(fiber_selections, matrix_selections) ==
    Contributions(matrices, matrix_selections, DOMAIN matrices,
        Contributions(fibers, fiber_selections, DOMAIN fibers, NoSums))

\* 1 / E2_denominator, 1 / G12_denominator, nu12 * E2 / E1 raise on a zero divisor
ZeroDivision(sums) ==
    IsZero(sums.E2_denominator) \/ IsZero(sums.G12_denominator) \/ IsZero(sums.E1)

\* the record with the transverse modulus from the linear rule
CompositeRecordVoigt(sums, fiber_selections, matrix_selections) ==
    LET E2 == sums.E1
        G12 == Div(One, sums.G12_denominator)
        nu21 == Div(Mul(sums.nu12, E2), sums.E1)
    IN  [E1 |-> sums.E1, E2 |-> E2, G12 |-> G12, nu12 |-> sums.nu12,
         nu21 |-> nu21, density |-> sums.density,
         fiber_constituents |-> fiber_selections,
         matrix_constituents |-> matrix_selections]

\* the dict stored under composite_name
CompositeRecord(sums, fiber_selections, matrix_selections) ==
    LET E2 == Div(One, sums.E2_denominator)
        G12 == Div(One, sums.G12_denominator)
        nu21 == Div(Mul(sums.nu12, E2), sums.E1)
    IN  [E1 |-> sums.E1, E2 |-> E2, G12 |-> G12, nu12 |-> sums.nu12,
         nu21 |-> nu21, density |-> sums.density,
         fiber_constituents |-> fiber_selections,
         matrix_constituents |-> matrix_selections]

(***************************************************************************)
(* "Calculate Composite Properties" asked for on the tab, with the given   *)
(* composite name and the given values of the volume-fraction widgets.     *)
(* The first two branches are the runs in which the tab never gets as far  *)
(* as the button: the early return and the widget-key exception.           *)
(***************************************************************************)
CompositeTab(composite_name, widgets) ==
    /\ reruns < MaxReruns
    /\ reruns' = reruns + 1
    /\ UNCHANGED <<fibers, matrices>>
    /\ IF DOMAIN fibers = {} \/ DOMAIN matrices = {}
       THEN /\ run' = Shown("calculate", composite_name, None, "warning",
                            None, None, None)
            /\ UNCHANGED composite_definitions
       ELSE IF DuplicateWidgetKey
       THEN /\ run' = Shown("calculate", composite_name, None,
                            "DuplicateWidgetID", None, None, None)
            /\ UNCHANGED composite_definitions
       ELSE LET fiber_selections == Selections(fibers, widgets)
                matrix_selections == Selections(matrices, widgets)
                total_fiber_vf == TotalVf(fiber_selections, DOMAIN fibers)
                total_matrix_vf == TotalVf(matrix_selections, DOMAIN matrices)
                vf_error == VfError(total_fiber_vf, total_matrix_vf)
                sums == Sums(fiber_selections, matrix_selections)
            IN  IF Accepted(vf_error, composite_name)
                THEN IF ZeroDivision(sums)
                     THEN /\ run' = Shown("calculate", composite_name, None,
                                          "ZeroDivisionError", vf_error,
                                          <<fiber_selections, matrix_selections>>,
                                          <<sums>>)
                          /\ UNCHANGED composite_definitions
                     ELSE /\ composite_definitions' =
                                DictSet(composite_definitions, composite_name,
                                    CompositeRecord(sums, fiber_selections,
                                                    matrix_selections))
                          /\ run' = Shown("calculate", composite_name, None,
                                          "results", vf_error,
                                          <<fiber_selections, matrix_selections>>,
                                          <<sums>>)
                ELSE /\ run' = Shown("calculate", composite_name, None,
                                     IF vf_error = None THEN "none" ELSE "error",
                                     vf_error, None, None)
                     /\ UNCHANGED composite_definitions

WidgetKeys == FiberKeys \cup MatrixKeys

\* the volume-fraction widgets exist only in a run that renders them
Rendered == DOMAIN fibers # {} /\ DOMAIN matrices # {} /\ ~DuplicateWidgetKey

WidgetValues(pool) == IF Rendered THEN [WidgetKeys -> pool] ELSE {<<>>}

Next ==
    \/ \E n \in FiberNames, p \in PropsPool : AddFiber(n, p)
    \/ \E n \in MatrixNames, p \in PropsPool : AddMatrix(n, p)
    \/ \E cn \in CompositeNames, w \in WidgetValues(VfPool) : CompositeTab(cn, w)

Spec == Init /\ [][Next]_vars

(***************************************************************************)
(* The sum check on a fine grid of fractions.  The session holds one fiber *)
(* and one matrix with unit properties and has one rerun left; the         *)
(* fractions are taken around the edges 0.99 and 1.01 of the tolerance.    *)
(***************************************************************************)
UnitProps == [E |-> One, nu |-> Zero, G |-> One, density |-> One]

FineVfPool ==
    {<<19, 50>>, <<39, 100>>, <<2, 5>>, <<41, 100>>, <<21, 50>>,
     <<29, 50>>, <<58998, 100000>>, <<117999, 200000>>, <<59, 100>>,
     <<591, 1000>>, <<3, 5>>, <<1201, 2000>>, <<609, 1000>>, <<61, 100>>,
     <<122001, 200000>>, <<61002, 100000>>, <<31, 50>>}

InitTol ==
    /\ fibers = ("Carbon" :> UnitProps)
    /\ matrices = ("Epoxy" :> UnitProps)
    /\ composite_definitions = NoDict
    /\ run = NoRun
    /\ reruns = MaxReruns - 1

NextTol ==
    \E cn \in CompositeNames, w \in WidgetValues(FineVfPool) : CompositeTab(cn, w)

SpecTol == InitTol /\ [][NextTol]_vars

(***************************************************************************)
(* Vocabulary of the properties.                                           *)
(***************************************************************************)
RECURSIVE Sigma(_)
Sigma(f) ==
    IF DOMAIN f = {} THEN Zero
    ELSE LET x == CHOOSE y \in DOMAIN f : TRUE
         IN  Add(f[x], Sigma([y \in DOMAIN f \ {x} |-> f[y]]))

\* every constituent of a record, fibers and matrices alike
Listed(r) ==
    ({"fiber"} \X DOMAIN r.fiber_constituents)
        \cup ({"matrix"} \X DOMAIN r.matrix_constituents)

V(r, c) ==
    IF c[1] = "fiber" THEN r.fiber_constituents[c[2]] ELSE r.matrix_constituents[c[2]]

P(F, M, c) == IF c[1] = "fiber" THEN F[c[2]] ELSE M[c[2]]

TotalOf(r) == Sigma([c \in Listed(r) |-> V(r, c)])

\* the record r is the rule-of-mixtures composite of the registries F, M
RuleOfMixtures(r, F, M) ==
    /\ DOMAIN r.fiber_constituents = DOMAIN F
    /\ DOMAIN r.matrix_constituents = DOMAIN M
    /\ r.E1 = Sigma([c \in Listed(r) |-> Mul(P(F, M, c).E, V(r, c))])
    /\ Mul(r.E2, Sigma([c \in Listed(r) |-> Div(V(r, c), P(F, M, c).E)])) = One
    /\ Mul(r.G12, Sigma([c \in Listed(r) |-> Div(V(r, c), P(F, M, c).G)])) = One
    /\ r.nu12 = Sigma([c \in Listed(r) |-> Mul(P(F, M, c).nu, V(r, c))])
    /\ Mul(r.nu21, r.E1) = Mul(r.nu12, r.E2)
    /\ r.density = Sigma([c \in Listed(r) |-> Mul(P(F, M, c).density, V(r, c))])

\* the last rerun stored a record; the last rerun reached the sum check
Stored == run.button = "calculate" /\ run.message = "results"

Validated ==
    run.button = "calculate" /\ run.message \notin {"warning", "DuplicateWidgetID"}

Entered == [fiber_constituents |-> run.selections[1],
            matrix_constituents |-> run.selections[2]]

Fields == {"E1", "E2", "G12", "nu12", "nu21", "density",
           "fiber_constituents", "matrix_constituents"}

\* C1: the record stored by Calculate obeys the six rule-of-mixtures
\* formulas, summed over all listed fibers and matrices together, with the
\* fractions that were entered.
C1_RuleOfMixtures ==
    Stored =>
        LET r == composite_definitions[run.name]
        IN  /\ r.fiber_constituents = run.selections[1]
            /\ r.matrix_constituents = run.selections[2]
            /\ RuleOfMixtures(r, fibers, matrices)

\* a record computed from three listed constituents, two with a positive share
C1_Witness ==
    /\ Stored
    /\ Cardinality(Listed(Entered)) >= 3
    /\ Cardinality({c \in Listed(Entered) : ~IsZero(V(Entered, c))}) >= 2

\* C2 (as stated): a request with a name is accepted, and its record stored,
\* exactly when the total of all the fractions deviates from 1.0 by at most
\* 0.01.
C2_AcceptedIffWithinAtol ==
    [][\A cn \in CompositeNames \ {""}, w \in WidgetValues(FineVfPool) :
          CompositeTab(cn, w) =>
              (Stored' <=> Leq(Abs(Sub(Sigma(w), One)), <<1, 100>>))]_vars

\* C3: a Calculate that fails validation (sum error shown, or empty name)
\* leaves the store as it was, and every record of the store is complete.
C3_FailedCalculateStoresNothing ==
    [][/\ (Validated' /\ (run'.vf_error # None \/ run'.name = ""))
            => composite_definitions' = composite_definitions
       /\ \A n \in DOMAIN composite_definitions' :
            DOMAIN composite_definitions'[n] = Fields]_vars

\* a rejected request in a session that already holds a record
C3_Witness ==
    /\ Validated
    /\ run.vf_error # None
    /\ DOMAIN composite_definitions # {}

Scenario ==
    /\ Stored
    /\ fibers = ("Carbon" :> CarbonProps)
    /\ matrices = ("Epoxy" :> EpoxyProps)
    /\ run.selections = <<("Carbon" :> <<3, 5>>), ("Epoxy" :> <<2, 5>>)>>

\* C4 (as stated): Carbon at 0.6 with Epoxy at 0.4 gives E1 = 138.4,
\* E2 = 8.97, G12 = 3.19, nu12 = 0.26, density = 1.56.
C4_ScenarioAsStated ==
    Scenario =>
        LET r == composite_definitions[run.name]
        IN  /\ Fmt(r.E1, 1) = 1384
            /\ Fmt(r.E2, 2) = 897
            /\ Fmt(r.G12, 2) = 319
            /\ Fmt(r.nu12, 2) = 26
            /\ Fmt(r.density, 2) = 156

\* C4 (amended): Carbon at 0.6 with Epoxy at 0.4 gives E1 = 139.4,
\* E2 = 8.55, G12 = 3.18, nu12 = 0.26, density = 1.56.
C4_Scenario ==
    Scenario =>
        LET r == composite_definitions[run.name]
        IN  /\ Fmt(r.E1, 1) = 1394
            /\ Fmt(r.E2, 2) = 855
            /\ Fmt(r.G12, 2) = 318
            /\ Fmt(r.nu12, 2) = 26
            /\ Fmt(r.density, 2) = 156

C4_Witness == Scenario

\* the record r has the properties p of a single constituent
Identity(r, p) ==
    /\ r.E1 = p.E
    /\ r.E2 = p.E
    /\ r.G12 = p.G
    /\ r.nu12 = p.nu
    /\ r.nu21 = p.nu
    /\ r.density = p.density

\* C5 (as stated): with one fiber and no matrix in the registry, a named
\* Calculate succeeds and stores the fiber's own properties.
C5_FiberAloneAsStated ==
    (/\ run.button = "calculate"
     /\ run.name # ""
     /\ Cardinality(DOMAIN fibers) = 1
     /\ DOMAIN matrices = {}) =>
        /\ Stored
        /\ \A f \in DOMAIN fibers : Identity(composite_definitions[run.name], fibers[f])

\* the entered fractions give all of the volume to the fiber f
AllTo(f) ==
    /\ run.selections[1][f] = One
    /\ \A c \in Listed(Entered) : c # <<"fiber", f>> => IsZero(V(Entered, c))

\* C5 (amended): a record stored with one fiber at 1.0 and every other listed
\* constituent at 0.0 has that fiber's own properties; with no fiber or no
\* matrix in the registry the tab only warns and computes nothing.
C5_SingleConstituent ==
    /\ Stored =>
         \A f \in DOMAIN fibers :
            AllTo(f) => Identity(composite_definitions[run.name], fibers[f])
    /\ (run.button = "calculate" /\ (DOMAIN fibers = {} \/ DOMAIN matrices = {}))
         => run.message = "warning"

\* a record stored from one fiber at 1.0 and a matrix at 0.0
C5_Witness ==
    /\ Stored
    /\ DOMAIN matrices # {}
    /\ \E f \in DOMAIN fibers : AllTo(f)

\* C6: a successful Calculate under a name makes the record under that name
\* the fresh result for the entered fractions and the registry in force;
\* every other step leaves every stored record as it was.
C6_RecordIsLastResult ==
    [][/\ \A n \in DOMAIN composite_definitions :
            /\ n \in DOMAIN composite_definitions'
            /\ \/ Stored' /\ run'.name = n
               \/ composite_definitions'[n] = composite_definitions[n]
       /\ \A n \in DOMAIN composite_definitions' \ DOMAIN composite_definitions :
            Stored' /\ run'.name = n
       /\ Stored' =>
            /\ composite_definitions'[run'.name].fiber_constituents = run'.selections[1]
            /\ composite_definitions'[run'.name].matrix_constituents = run'.selections[2]
            /\ RuleOfMixtures(composite_definitions'[run'.name], fibers', matrices')]_vars

\* a stored record that the registry no longer reproduces, right after an add
C6_Witness ==
    /\ run.button \in {"add_fiber", "add_matrix"}
    /\ \E n \in DOMAIN composite_definitions :
          /\ DOMAIN composite_definitions[n].fiber_constituents = DOMAIN fibers
          /\ DOMAIN composite_definitions[n].matrix_constituents = DOMAIN matrices
          /\ ~RuleOfMixtures(composite_definitions[n], fibers, matrices)

\* the dict d with d[k] = v and every other entry as before
With(d, k, v) == [x \in DOMAIN d \cup {k} |-> IF x = k THEN v ELSE d[x]]

\* C7: an add with an empty name shows an error and changes nothing; an add
\* with a name sets exactly that entry of its own registry to the supplied
\* properties and changes nothing else.
C7_AddConstituent ==
    [][/\ (run'.button \in {"add_fiber", "add_matrix"} /\ run'.name = "") =>
            /\ run'.message = "error"
            /\ UNCHANGED <<fibers, matrices, composite_definitions>>
       /\ (run'.button = "add_fiber" /\ run'.name # "") =>
            /\ fibers' = With(fibers, run'.name, run'.props[1])
            /\ UNCHANGED <<matrices, composite_definitions>>
       /\ (run'.button = "add_matrix" /\ run'.name # "") =>
            /\ matrices' = With(matrices, run'.name, run'.props[1])
            /\ UNCHANGED <<fibers, composite_definitions>>]_vars

\* an add that left another entry of the same registry and a record behind
C7_Witness ==
    /\ run.button = "add_fiber"
    /\ run.message = "success"
    /\ Cardinality(DOMAIN fibers) = 2
    /\ DOMAIN composite_definitions # {}

\* C8 (as stated): the widget keys of the fibers and of the matrices never
\* collide, so the tab never fails on a name shared by a fiber and a matrix.
C8_KeysNeverCollide ==
    /\ \A f \in DOMAIN fibers, m \in DOMAIN matrices : VfKey(f) # VfKey(m)
    /\ run.message # "DuplicateWidgetID"

\* C9: whenever the computation step is reached, the two denominators and
\* E1 are strictly positive, so no division fails.
C9_NoZeroDivision ==
    /\ run.sums # None =>
         /\ Less(Zero, run.sums[1].E2_denominator)
         /\ Less(Zero, run.sums[1].G12_denominator)
         /\ Less(Zero, run.sums[1].E1)
    /\ run.message # "ZeroDivisionError"

\* the computation reached with a constituent at fraction 0
C9_Witness ==
    /\ run.sums # None
    /\ \E c \in Listed(Entered) : IsZero(V(Entered, c))

\* what the sum check lets through: atol + rtol * |1.0|
ValidatorTolerance == Add(<<1, 100>>, <<1, 100000>>)

RecordsRooted(store, F, M) ==
    \A n \in DOMAIN store :
        /\ n # ""
        /\ DOMAIN store[n].fiber_constituents \subseteq DOMAIN F
        /\ DOMAIN store[n].matrix_constituents \subseteq DOMAIN M
        /\ DOMAIN F # {}
        /\ DOMAIN M # {}
        /\ Leq(Abs(Sub(TotalOf(store[n]), One)), ValidatorTolerance)

\* C10: registry entries are never removed, and every stored record has a
\* non-empty name, constituents that are keys of the two non-empty
\* registries, and fractions summing to 1.0 within the validator's tolerance.
C10_RecordsRooted ==
    [][/\ DOMAIN fibers \subseteq DOMAIN fibers'
       /\ DOMAIN matrices \subseteq DOMAIN matrices'
       /\ RecordsRooted(composite_definitions', fibers', matrices')]_vars

\* a record whose registry has grown since it was stored
C10_Witness ==
    \E n \in DOMAIN composite_definitions :
        \/ DOMAIN composite_definitions[n].fiber_constituents # DOMAIN fibers
        \/ DOMAIN composite_definitions[n].matrix_constituents # DOMAIN matrices

====
